---------------------------- MODULE Spec2Model ----------------------------
(***************************************************************************)
(* A model of samba_exporter's smbstatus table parsers (package            *)
(* smbstatusreader) and of its Prometheus collector (package smbexporter). *)
(*                                                                         *)
(* A Go string is modelled as the sequence of its characters, so that      *)
(* splitting, trimming, integer conversion and time parsing are computed   *)
(* the way the Go library computes them.  A character of ASCII is the      *)
(* string of that one character.  A character outside ASCII is the string  *)
(* "U+" with its code point in four hexadecimal digits ("U+00A0" is the    *)
(* no-break space, "U+00E9" is e acute), so the module is plain ASCII.     *)
(***************************************************************************)
EXTENDS Integers, Sequences, FiniteSets, TLC

\* data, out: the text handed to a table parser and the outcome of the call.
\* Descriptions: the exporter's registry.  pc, call: where each caller of
\* Describe or Collect stands and what its call holds.  reqPipe: the status
\* requests written to the request pipe and not yet answered.  fatal: the Go
\* runtime has ended the process.  last: the call that returned last, as long
\* as no call has begun since.
VARIABLES data, out, Descriptions, pc, call, reqPipe, fatal, last

vars == <<data, out, Descriptions, pc, call, reqPipe, fatal, last>>

parserVars == <<data, out>>

exporterVars == <<Descriptions, pc, call, reqPipe, fatal, last>>

(***************************************************************************)
(* Package strings.                                                        *)
(***************************************************************************)

\* strings.HasPrefix
HasPrefix(s, p) == Len(s) >= Len(p) /\ SubSeq(s, 1, Len(p)) = p

\* The suffix of s that starts at (1-based) position i: Go's s[i-1:].
Drop(s, i) == SubSeq(s, i, Len(s))

\* strings.Index, 1-based: the first position of sep in s, 0 when there is none.
RECURSIVE IndexFrom(_, _, _)
IndexFrom(s, sep, i) ==
    IF i + Len(sep) - 1 > Len(s) THEN 0
    ELSE IF SubSeq(s, i, i + Len(sep) - 1) = sep THEN i
    ELSE IndexFrom(s, sep, i + 1)

Index(s, sep) == IndexFrom(s, sep, 1)

\* strings.Contains
Contains(s, sub) == Index(s, sub) # 0

\* strings.Split for a non-empty separator: the substrings between the
\* non-overlapping occurrences of sep, found from left to right.
RECURSIVE Split(_, _)
Split(s, sep) ==
    LET i == Index(s, sep)
    IN  IF i = 0 THEN <<s>>
        ELSE <<SubSeq(s, 1, i - 1)>> \o Split(Drop(s, i + Len(sep)), sep)

\* The white space strings.TrimSpace removes (unicode.IsSpace): tab, line
\* feed, vertical tab, form feed, carriage return and space, and outside
\* ASCII U+0085, U+00A0, U+1680, U+2000 to U+200A, U+2028, U+2029, U+202F,
\* U+205F and U+3000.
WhiteSpace ==
    {"\t", "\n", "", "\f", "\r", " ",
     "U+0085", "U+00A0", "U+1680", "U+2000", "U+2001", "U+2002",
     "U+2003", "U+2004", "U+2005", "U+2006", "U+2007", "U+2008",
     "U+2009", "U+200A", "U+2028", "U+2029", "U+202F", "U+205F", "U+3000"}

IsSpace(c) == c \in WhiteSpace

RECURSIVE TrimLeft(_)
TrimLeft(s) == IF s # <<>> /\ IsSpace(Head(s)) THEN TrimLeft(Tail(s)) ELSE s

RECURSIVE TrimRight(_)
TrimRight(s) ==
    IF s # <<>> /\ IsSpace(s[Len(s)]) THEN TrimRight(SubSeq(s, 1, Len(s) - 1)) ELSE s

\* strings.TrimSpace
TrimSpace(s) == TrimRight(TrimLeft(s))

\* strings.Replace(s, old, new, 1)
ReplaceFirst(s, old, new) ==
    LET i == Index(s, old)
    IN  IF i = 0 THEN s
        ELSE SubSeq(s, 1, i - 1) \o new \o Drop(s, i + Len(old))

\* fmt.Sprintf("%s %s", a, b)
Sprintf2(a, b) == a \o <<" ">> \o b

\* The loop `for _, p := range parts { s = fmt.Sprintf("%s %s", s, p) }` from "".
RECURSIVE JoinLeadingSpace(_)
JoinLeadingSpace(parts) ==
    IF parts = <<>> THEN <<>>
    ELSE JoinLeadingSpace(SubSeq(parts, 1, Len(parts) - 1))
         \o <<" ">> \o parts[Len(parts)]

(***************************************************************************)
(* Package strconv.                                                        *)
(***************************************************************************)

Digits == <<"0", "1", "2", "3", "4", "5", "6", "7", "8", "9">>

IsDigitChar(c) == \E d \in 1..10 : Digits[d] = c

DigitVal(c) == (CHOOSE d \in 1..10 : Digits[d] = c) - 1

AllDigits(s) == \A i \in 1..Len(s) : IsDigitChar(s[i])

RECURSIVE DecVal(_)
DecVal(s) == IF s = <<>> THEN 0
             ELSE 10 * DecVal(SubSeq(s, 1, Len(s) - 1)) + DigitVal(s[Len(s)])

RECURSIVE StripZeros(_)
StripZeros(s) == IF s # <<>> /\ Head(s) = "0" THEN StripZeros(Tail(s)) ELSE s

\* Whether the digits a are at most the digits b, read from the left, for
\* a and b of one length.
RECURSIVE DigitsLeq(_, _)
DigitsLeq(a, b) ==
    IF a = <<>> THEN TRUE
    ELSE IF DigitVal(Head(a)) # DigitVal(Head(b)) THEN DigitVal(Head(a)) < DigitVal(Head(b))
    ELSE DigitsLeq(Tail(a), Tail(b))

\* Whether the number a is at most the number b, both written in decimal
\* digits without leading zeros.
NumeralLeq(a, b) == Len(a) < Len(b) \/ (Len(a) = Len(b) /\ DigitsLeq(a, b))

\* The largest int of a 64-bit build, the magnitude of the smallest, and the
\* largest magnitude the integers of the model hold, in decimal digits.
MaxInt64 ==
    <<"9", "2", "2", "3", "3", "7", "2", "0", "3", "6", "8", "5", "4", "7", "7", "5", "8", "0",
      "7">>

MinInt64Magnitude ==
    <<"9", "2", "2", "3", "3", "7", "2", "0", "3", "6", "8", "5", "4", "7", "7", "5", "8", "0",
      "8">>

MaxModelInt == <<"2", "1", "4", "7", "4", "8", "3", "6", "4", "7">>

\* The int with the sign and the magnitude sig (digits without leading
\* zeros): an integer of the model when the model's integers hold it, else
\* its decimal numeral, the characters of strconv.Itoa's result.
IntOf(negative, sig) ==
    IF NumeralLeq(sig, MaxModelInt)
    THEN IF negative THEN 0 - DecVal(sig) ELSE DecVal(sig)
    ELSE IF negative THEN <<"-">> \o sig ELSE sig

\* Atoi for the digits body after the sign: a range error gives the nearest
\* int with the error.
AtoiDigits(negative, sig) ==
    IF NumeralLeq(sig, IF negative THEN MinInt64Magnitude ELSE MaxInt64)
    THEN [err |-> FALSE, val |-> IntOf(negative, sig)]
    ELSE [err |-> TRUE, val |-> IntOf(negative, IF negative THEN MinInt64Magnitude ELSE MaxInt64)]

\* The largest uint64, in decimal digits.
MaxUint64 ==
    <<"1", "8", "4", "4", "6", "7", "4", "4", "0", "7", "3", "7", "0", "9", "5", "5", "1", "6",
      "1", "5">>

\* The digits s starts with, up to its first character that is no digit.
RECURSIVE DigitPrefix(_)
DigitPrefix(s) ==
    IF s # <<>> /\ IsDigitChar(Head(s)) THEN <<Head(s)>> \o DigitPrefix(Tail(s)) ELSE <<>>

\* Atoi for a string with the first character taken off when it is a sign.
\* The characters are read from the left: digits that leave the range of
\* uint64 end the reading with a range error and the nearest int, whatever
\* follows them; a character that is no digit, or no character at all, is a
\* syntax error with 0; digits to the end are checked against the range of
\* int64.
AtoiBody(negative, body) ==
    IF ~NumeralLeq(StripZeros(DigitPrefix(body)), MaxUint64)
    THEN AtoiDigits(negative, StripZeros(DigitPrefix(body)))
    ELSE IF body = <<>> \/ ~AllDigits(body) THEN [err |-> TRUE, val |-> 0]
    ELSE AtoiDigits(negative, StripZeros(body))

\* strconv.Atoi on a 64-bit build: an optional sign and one or more decimal
\* digits, within the range of int64.  The result is [err, val].
Atoi(s) ==
    IF s # <<>> /\ Head(s) \in {"+", "-"} THEN AtoiBody(Head(s) = "-", Tail(s))
    ELSE AtoiBody(FALSE, s)

(***************************************************************************)
(* Package time: time.Parse for the layouts the parsers use.               *)
(***************************************************************************)

UpperLetters == <<"A", "B", "C", "D", "E", "F", "G", "H", "I", "J", "K", "L", "M", "N", "O", "P", "Q", "R", "S", "T", "U", "V", "W", "X", "Y", "Z">>

LowerLetters == <<"a", "b", "c", "d", "e", "f", "g", "h", "i", "j", "k", "l", "m", "n", "o", "p", "q", "r", "s", "t", "u", "v", "w", "x", "y", "z">>

IsUpper(c) == \E i \in 1..26 : UpperLetters[i] = c

IsLower(c) == \E i \in 1..26 : LowerLetters[i] = c

ToLower(c) == IF IsUpper(c) THEN LowerLetters[CHOOSE i \in 1..26 : UpperLetters[i] = c]
              ELSE c

\* time.match: equality of two strings of one length up to the case of letters.
Match(s1, s2) ==
    \A i \in 1..Len(s1) :
        s1[i] = s2[i] \/ (ToLower(s1[i]) = ToLower(s2[i]) /\ IsLower(ToLower(s1[i])))

shortDayNames == <<<<"S", "u", "n">>, <<"M", "o", "n">>, <<"T", "u", "e">>, <<"W", "e", "d">>, <<"T", "h", "u">>, <<"F", "r", "i">>, <<"S", "a", "t">>>>

shortMonthNames == <<<<"J", "a", "n">>, <<"F", "e", "b">>, <<"M", "a", "r">>, <<"A", "p", "r">>, <<"M", "a", "y">>, <<"J", "u", "n">>, <<"J", "u", "l">>, <<"A", "u", "g">>, <<"S", "e", "p">>, <<"O", "c", "t">>, <<"N", "o", "v">>, <<"D", "e", "c">>>>

\* time.lookup: the 1-based index of the first name of tab that val starts
\* with (whatever the case), 0 when there is none.
Lookup(tab, val) ==
    LET hits == {i \in 1..Len(tab) :
                    Len(val) >= Len(tab[i]) /\ Match(SubSeq(val, 1, Len(tab[i])), tab[i])}
    IN  IF hits = {} THEN 0 ELSE CHOOSE i \in hits : \A j \in hits : i <= j

\* time.isDigit(s, i) for the 1-based position i
IsDigitAt(s, i) == i <= Len(s) /\ IsDigitChar(s[i])

\* time.getnum: a one or two digit number (two digits when fixed).
Getnum(s, fixed) ==
    IF ~IsDigitAt(s, 1) THEN [err |-> TRUE, n |-> 0, rest |-> s]
    ELSE IF ~IsDigitAt(s, 2)
         THEN IF fixed THEN [err |-> TRUE, n |-> 0, rest |-> s]
              ELSE [err |-> FALSE, n |-> DigitVal(s[1]), rest |-> Tail(s)]
         ELSE [err |-> FALSE, n |-> DigitVal(s[1]) * 10 + DigitVal(s[2]), rest |-> Drop(s, 3)]

\* time.cutspace
RECURSIVE Cutspace(_)
Cutspace(s) == IF s # <<>> /\ Head(s) = " " THEN Cutspace(Tail(s)) ELSE s

\* time.skip: value without the literal text prefix, a run of spaces of the
\* prefix matching any run of spaces of the value.
RECURSIVE Skip(_, _)
Skip(value, prefix) ==
    IF prefix = <<>> THEN [err |-> FALSE, rest |-> value]
    ELSE IF Head(prefix) = " "
         THEN IF value # <<>> /\ Head(value) # " " THEN [err |-> TRUE, rest |-> value]
              ELSE Skip(Cutspace(value), Cutspace(prefix))
         ELSE IF value = <<>> \/ Head(value) # Head(prefix)
              THEN [err |-> TRUE, rest |-> value]
              ELSE Skip(Tail(value), Tail(prefix))

\* The number of leading characters of s that satisfy the digit test, from
\* position i on.
RECURSIVE DigitRunEnd(_, _)
DigitRunEnd(s, i) == IF IsDigitAt(s, i) THEN DigitRunEnd(s, i + 1) ELSE i

\* time.parseSignedOffset: the length of a leading +hh or -hh, 0 when there is none.
ParseSignedOffset(value) ==
    IF value = <<>> \/ Head(value) \notin {"+", "-"} THEN 0
    ELSE LET e == DigitRunEnd(value, 2)
             num == StripZeros(SubSeq(value, 2, e - 1))
         IN  IF e = 2 \/ Len(num) > 2 \/ DecVal(num) > 23 THEN 0 ELSE e - 1

\* time.parseGMT
ParseGMT(value) == IF Len(value) = 3 THEN 3 ELSE 3 + ParseSignedOffset(Drop(value, 4))

RECURSIVE UpperRun(_, _)
UpperRun(s, n) == IF n < 6 /\ n < Len(s) /\ IsUpper(s[n + 1]) THEN UpperRun(s, n + 1) ELSE n

\* time.parseTimeZone: the length of the time zone abbreviation value starts
\* with, 0 when it starts with none.
ParseTimeZone(value) ==
    IF Len(value) < 3 THEN 0
    ELSE IF Len(value) >= 4 /\ SubSeq(value, 1, 4) \in {<<"C", "h", "S", "T">>, <<"M", "e", "S", "T">>} THEN 4
    ELSE IF SubSeq(value, 1, 3) = <<"G", "M", "T">> THEN ParseGMT(value)
    ELSE IF Head(value) \in {"+", "-"} THEN ParseSignedOffset(value)
    ELSE LET nUpper == UpperRun(value, 0)
         IN  IF nUpper = 5 /\ value[5] = "T" THEN 5
             ELSE IF nUpper = 4 /\ (value[4] = "T" \/ SubSeq(value, 1, 4) = <<"W", "I", "T", "A">>) THEN 4
             ELSE IF nUpper = 3 THEN 3
             ELSE 0

\* A layout is the sequence of chunks time.nextStdChunk cuts it into: a
\* standard element (Std) or the literal text before the next one (Lit).
Std(k) == [k |-> k, lit |-> <<>>]

Lit(t) == [k |-> "lit", lit |-> t]

\* time.ANSIC = "Mon Jan _2 15:04:05 2006"
ANSIC ==
    <<Std("Mon"), Lit(<<" ">>), Std("Jan"), Lit(<<" ">>), Std("_2"), Lit(<<" ">>),
      Std("15"), Lit(<<":">>), Std("04"), Lit(<<":">>), Std("05"), Lit(<<" ">>),
      Std("2006")>>

\* "Mon Jan 02 03:04:05 PM 2006 MST"
Layout12hZeroDay ==
    <<Std("Mon"), Lit(<<" ">>), Std("Jan"), Lit(<<" ">>), Std("02"), Lit(<<" ">>),
      Std("03"), Lit(<<":">>), Std("04"), Lit(<<":">>), Std("05"), Lit(<<" ">>),
      Std("PM"), Lit(<<" ">>), Std("2006"), Lit(<<" ">>), Std("MST")>>

\* "Mon Jan 2 03:04:05 PM 2006 MST"
Layout12hDay ==
    <<Std("Mon"), Lit(<<" ">>), Std("Jan"), Lit(<<" ">>), Std("2"), Lit(<<" ">>),
      Std("03"), Lit(<<":">>), Std("04"), Lit(<<":">>), Std("05"), Lit(<<" ">>),
      Std("PM"), Lit(<<" ">>), Std("2006"), Lit(<<" ">>), Std("MST")>>

\* "Mon Jan _2 15:04:05 2006 MST"
Layout24hZone ==
    <<Std("Mon"), Lit(<<" ">>), Std("Jan"), Lit(<<" ">>), Std("_2"), Lit(<<" ">>),
      Std("15"), Lit(<<":">>), Std("04"), Lit(<<":">>), Std("05"), Lit(<<" ">>),
      Std("2006"), Lit(<<" ">>), Std("MST")>>

\* "Mo Jan _2 15:04:05 2006 MST": "Mo" is no standard element, it is literal text.
Layout24hMo ==
    <<Lit(<<"M", "o", " ">>), Std("Jan"), Lit(<<" ">>), Std("_2"), Lit(<<" ">>),
      Std("15"), Lit(<<":">>), Std("04"), Lit(<<":">>), Std("05"), Lit(<<" ">>),
      Std("2006"), Lit(<<" ">>), Std("MST")>>

isLeap(year) == year % 4 = 0 /\ (year % 100 # 0 \/ year % 400 = 0)

\* time.daysIn
daysIn(m, year) ==
    IF m = 2 THEN (IF isLeap(year) THEN 29 ELSE 28)
    ELSE IF m \in {4, 6, 9, 11} THEN 30 ELSE 31

\* The parse state before any chunk: the value left to read and the fields read.
ParseStart(value) ==
    [err |-> FALSE, v |-> value, year |-> 0, month |-> 0, day |-> 0,
     hour |-> 0, min |-> 0, sec |-> 0, pm |-> "none"]

Bad(st) == [st EXCEPT !.err = TRUE]

\* A fractional second in the value where the layout has none, after the
\* seconds: a period or comma and digits, read and dropped.
SkipFraction(v) ==
    IF Len(v) >= 2 /\ v[1] \in {".", ","} /\ IsDigitAt(v, 2)
    THEN Drop(v, DigitRunEnd(v, 3))
    ELSE v

\* One turn of time.Parse's loop: the chunk el read from the value.
ParseChunk(st, el) ==
    LET v == st.v
        num(fixed) == Getnum(v, fixed)
    IN  CASE el.k = "lit" ->
                LET r == Skip(v, el.lit)
                IN  IF r.err THEN Bad(st) ELSE [st EXCEPT !.v = r.rest]
          [] el.k = "Mon" ->
                IF Lookup(shortDayNames, v) = 0 THEN Bad(st)
                ELSE [st EXCEPT !.v = Drop(v, 4)]
          [] el.k = "Jan" ->
                LET m == Lookup(shortMonthNames, v)
                IN  IF m = 0 THEN Bad(st) ELSE [st EXCEPT !.v = Drop(v, 4), !.month = m]
          [] el.k \in {"2", "_2", "02"} ->
                LET w == IF el.k = "_2" /\ v # <<>> /\ Head(v) = " " THEN Tail(v) ELSE v
                    r == Getnum(w, el.k = "02")
                IN  IF r.err THEN Bad(st) ELSE [st EXCEPT !.v = r.rest, !.day = r.n]
          [] el.k = "15" ->
                LET r == num(FALSE)
                IN  IF r.err \/ r.n >= 24 THEN Bad(st)
                    ELSE [st EXCEPT !.v = r.rest, !.hour = r.n]
          [] el.k = "03" ->
                LET r == num(TRUE)
                IN  IF r.err \/ r.n > 12 THEN Bad(st)
                    ELSE [st EXCEPT !.v = r.rest, !.hour = r.n]
          [] el.k = "04" ->
                LET r == num(TRUE)
                IN  IF r.err \/ r.n >= 60 THEN Bad(st)
                    ELSE [st EXCEPT !.v = r.rest, !.min = r.n]
          [] el.k = "05" ->
                LET r == num(TRUE)
                IN  IF r.err \/ r.n >= 60 THEN Bad(st)
                    ELSE [st EXCEPT !.v = SkipFraction(r.rest), !.sec = r.n]
          [] el.k = "PM" ->
                IF Len(v) >= 2 /\ SubSeq(v, 1, 2) = <<"P", "M">>
                THEN [st EXCEPT !.v = Drop(v, 3), !.pm = "PM"]
                ELSE IF Len(v) >= 2 /\ SubSeq(v, 1, 2) = <<"A", "M">>
                THEN [st EXCEPT !.v = Drop(v, 3), !.pm = "AM"]
                ELSE Bad(st)
          [] el.k = "2006" ->
                IF Len(v) < 4 \/ ~AllDigits(SubSeq(v, 1, 4)) THEN Bad(st)
                ELSE [st EXCEPT !.v = Drop(v, 5), !.year = DecVal(SubSeq(v, 1, 4))]
          [] el.k = "MST" ->
                IF Len(v) >= 3 /\ SubSeq(v, 1, 3) = <<"U", "T", "C">>
                THEN [st EXCEPT !.v = Drop(v, 4)]
                ELSE LET n == ParseTimeZone(v)
                     IN  IF n = 0 THEN Bad(st) ELSE [st EXCEPT !.v = Drop(v, n + 1)]

RECURSIVE ParseChunks(_, _)
ParseChunks(st, layout) ==
    IF st.err \/ layout = <<>> THEN st
    ELSE ParseChunks(ParseChunk(st, Head(layout)), Tail(layout))

\* The zero time.Time, and a Time as the model keeps it: the calendar fields
\* (the location and the fraction of a second are left out).
ZeroTime == [year |-> 1, month |-> 1, day |-> 1, hour |-> 0, min |-> 0, sec |-> 0]

\* The end of time.Parse for the parse state st after the last chunk: an
\* error when a chunk did not match, when text is left over or when the day is
\* not one of the month; the hour of a 12 hour clock is converted.
TimeResult(st) ==
    IF st.err \/ st.v # <<>> \/ st.day < 1 \/ st.day > daysIn(st.month, st.year)
    THEN [err |-> TRUE, t |-> ZeroTime]
    ELSE [err |-> FALSE,
          t |-> [year |-> st.year, month |-> st.month, day |-> st.day,
                 hour |-> IF st.pm = "PM" /\ st.hour < 12 THEN st.hour + 12
                          ELSE IF st.pm = "AM" /\ st.hour = 12 THEN 0
                          ELSE st.hour,
                 min |-> st.min, sec |-> st.sec]]

\* time.Parse(layout, value)
TimeParse(layout, value) == TimeResult(ParseChunks(ParseStart(value), layout))

(***************************************************************************)
(* Package smbstatusreader: the helpers of the three table parsers.        *)
(***************************************************************************)

\* Literal strings of the source.
StrNoLockedFiles == <<"N", "o", " ", "l", "o", "c", "k", "e", "d", " ", "f", "i", "l", "e", "s">>

StrPid == <<"P", "i", "d">>

StrOplock == <<"O", "p", "l", "o", "c", "k">>

StrService == <<"S", "e", "r", "v", "i", "c", "e">>

StrConnectedAt == <<"C", "o", "n", "n", "e", "c", "t", "e", "d", " ", "a", "t">>

StrPID == <<"P", "I", "D">>

StrProtocolVersion == <<"P", "r", "o", "t", "o", "c", "o", "l", " ", "V", "e", "r", "s", "i", "o", "n">>

StrUsername == <<"U", "s", "e", "r", "n", "a", "m", "e">>

StrSambaVersion == <<"S", "a", "m", "b", "a", " ", "v", "e", "r", "s", "i", "o", "n">>

StrNobody == <<"n", "o", "b", "o", "d", "y">>

StrNogroup == <<"n", "o", "g", "r", "o", "u", "p">>

\* The 41 dashes a separator line starts with.
StrDashes == [i \in 1..41 |-> "-"]

\* The fields of one line: its parts between the separators, trimmed, the
\* empty ones left out (the inner loop of getFieldMatrix).
RECURSIVE TrimmedFields(_)
TrimmedFields(parts) ==
    IF parts = <<>> THEN <<>>
    ELSE LET trimmedField == TrimSpace(Head(parts))
         IN  (IF trimmedField # <<>> THEN <<trimmedField>> ELSE <<>>)
             \o TrimmedFields(Tail(parts))

\* getFieldMatrix: one row of fields per line, a line without fields included.
getFieldMatrix(dataLines, separator) ==
    [i \in 1..Len(dataLines) |-> TrimmedFields(Split(dataLines[i], separator))]

\* getFieldMatrixFixLength: the rows of getFieldMatrix that have lineFields
\* fields, in order (the nil matrix, <<>>, when there is none).
getFieldMatrixFixLength(dataLines, separator, lineFields) ==
    SelectSeq(getFieldMatrix(dataLines, separator), LAMBDA row : Len(row) = lineFields)

\* findSeperatorLineIndex: the 0-based index of the first line that starts
\* with the dashes, -1 when there is none.
findSeperatorLineIndex(lines) ==
    LET hits == {i \in 1..Len(lines) : HasPrefix(lines[i], StrDashes)}
    IN  IF hits = {} THEN -1 ELSE (CHOOSE i \in hits : \A j \in hits : i <= j) - 1

\* The layouts tryGetTimeStampFromStrArr tries, in its order: time.ANSIC in
\* the local time zone (time.ParseInLocation) and in UTC (time.Parse accepts
\* the same strings), then the four layouts with a time zone.
TimeStampLayouts ==
    <<ANSIC, ANSIC, Layout12hZeroDay, Layout12hDay, Layout24hZone, Layout24hMo>>

\* The time of the first of the layouts that parses timeStr.  When none does
\* the source returns the clock's time, which its callers never read; it is
\* ZeroTime here.
RECURSIVE TryLayouts(_, _)
TryLayouts(layouts, timeStr) ==
    IF layouts = <<>> THEN [ok |-> FALSE, t |-> ZeroTime]
    ELSE IF ~TimeParse(Head(layouts), timeStr).err
         THEN [ok |-> TRUE, t |-> TimeParse(Head(layouts), timeStr).t]
         ELSE TryLayouts(Tail(layouts), timeStr)

\* tryGetTimeStampFromStrArr: the fields joined by spaces and trimmed, parsed
\* with the first layout that fits.
tryGetTimeStampFromStrArr(fields) ==
    TryLayouts(TimeStampLayouts, TrimSpace(JoinLeadingSpace(fields)))

\* Go's lines[a:] for 0-based a.
SliceFrom(seq, a) == SubSeq(seq, a + 1, Len(seq))

\* Go's fields[a:b] for 0-based a <= b.
Slice(seq, a, b) == SubSeq(seq, a + 1, b)

\* The calls of the logger: WriteErrorWithAddition(err, addition) for a failed
\* conversion of the token arg, WriteErrorMessage(message) quoting a line.
LogConv(addition, arg) == [fn |-> "WriteErrorWithAddition", text |-> addition, arg |-> arg]

LogLine(message, line) == [fn |-> "WriteErrorMessage", text |-> message, arg |-> line]

\* The conversions of a "node:pid" token: node and pid are Atoi's results for
\* the two parts.
PidWithNode(pidFields, node, pid, addNode, addWith) ==
    IF node.err
    THEN [err |-> TRUE, log |-> LogConv(addNode, pidFields[1]), ClusterNodeId |-> 0, PID |-> 0]
    ELSE IF pid.err
    THEN [err |-> TRUE, log |-> LogConv(addWith, pidFields[2]),
          ClusterNodeId |-> node.val, PID |-> 0]
    ELSE [err |-> FALSE, log |-> LogConv("", <<>>), ClusterNodeId |-> node.val, PID |-> pid.val]

\* The conversion of a "pid" token, pid Atoi's result for it.
PidAlone(token, pid, addWithout) ==
    IF pid.err
    THEN [err |-> TRUE, log |-> LogConv(addWithout, token), ClusterNodeId |-> -1, PID |-> 0]
    ELSE [err |-> FALSE, log |-> LogConv("", <<>>), ClusterNodeId |-> -1, PID |-> pid.val]

\* The two parts of a "node:pid" token converted.
PidSplit(pidFields, addNode, addWith) ==
    PidWithNode(pidFields, Atoi(pidFields[1]), Atoi(pidFields[2]), addNode, addWith)

\* The process id token of a row: "node:pid" in cluster mode, "pid" otherwise.
\* A failed conversion gives the log call of its place in the source: addNode
\* for the node id, addWith for the pid after a colon, addWithout for a pid alone.
PidFields(token, addNode, addWith, addWithout) ==
    IF Contains(token, <<":">>)
    THEN PidSplit(Split(token, <<":">>), addNode, addWith)
    ELSE PidAlone(token, Atoi(token), addWithout)

\* What one turn of a parser's loop over the rows does: it appends a record,
\* it logs and skips the row, or it faults (a Go runtime panic, which ends
\* the call without a result).
Appended(entry) == [kind |-> "record", entry |-> entry, log |-> <<>>]

Skipped(logCall) == [kind |-> "skip", entry |-> <<>>, log |-> <<logCall>>]

Panic == [kind |-> "panic", entry |-> <<>>, log |-> <<>>]

\* A call that returned ret, with the log calls it made.
Returned(ret, log) == [panic |-> FALSE, ret |-> ret, log |-> log]

ReturnedEmpty == Returned(<<>>, <<>>)

\* The loop `for _, fields := range rows { ... ret = append(ret, entry) }`
\* collects the records and the log calls in row order, up to the first
\* fault.  acc is the outcome so far, r what the loop body did with a row.
Faulted(acc, r) == [acc EXCEPT !.panic = TRUE, !.log = acc.log \o r.log]

Stepped(acc, r) ==
    [acc EXCEPT !.ret = IF r.kind = "record" THEN Append(acc.ret, r.entry) ELSE acc.ret,
                !.log = acc.log \o r.log]

(***************************************************************************)
(* GetLockData                                                             *)
(***************************************************************************)

\* The end of GetLockData's loop body: the time stamp t starts at the field
\* lastNameIndex (-1: no time stamp was found), the name is the fields from 7
\* up to it.  The two "Not able to ..." messages quote lines[i], the i-th line
\* of the whole input.
LockRowName(lines, fields, i, p, uid, t, lastNameIndex) ==
    IF lastNameIndex = -1
    THEN Skipped(LogLine("Not able to parse the time stamp in following LockData line",
                         lines[i + 1]))
    ELSE IF lastNameIndex <= 7
    THEN Skipped(LogLine("Not able to find the name in following LockData line",
                         lines[i + 1]))
    ELSE Appended([PID |-> p.PID, ClusterNodeId |-> p.ClusterNodeId, UserID |-> uid.val,
                   DenyMode |-> fields[3], Access |-> fields[4], AccessMode |-> fields[5],
                   Oplock |-> fields[6], SharePath |-> fields[7],
                   Name |-> TrimSpace(JoinLeadingSpace(Slice(fields, 7, lastNameIndex))),
                   Time |-> t])

\* The second try of the time stamp, on the last 6 fields, t6 its result.
LockRowTime6(lines, fields, i, p, uid, t6) ==
    LockRowName(lines, fields, i, p, uid, t6.t, IF t6.ok THEN Len(fields) - 6 ELSE -1)

\* The first try of the time stamp, on the last 5 fields, t5 its result.
LockRowTime5(lines, fields, i, p, uid, t5) ==
    IF t5.ok THEN LockRowName(lines, fields, i, p, uid, t5.t, Len(fields) - 5)
    ELSE LockRowTime6(lines, fields, i, p, uid,
                      tryGetTimeStampFromStrArr(Slice(fields, Len(fields) - 6, Len(fields))))

\* The loop body after the user id's conversion uid: fields[2] to fields[6]
\* are read, then the time stamp is looked for.
LockRowUser(lines, fields, i, p, uid) ==
    IF uid.err THEN Skipped(LogConv("while getting LockData UserID", fields[2]))
    ELSE IF Len(fields) < 7 THEN Panic
    ELSE LockRowTime5(lines, fields, i, p, uid,
                      tryGetTimeStampFromStrArr(Slice(fields, Len(fields) - 5, Len(fields))))

\* The loop body after the process id's conversion p: fields[1] is read.
LockRowPid(lines, fields, i, p) ==
    IF p.err THEN Skipped(p.log)
    ELSE IF Len(fields) < 2 THEN Panic
    ELSE LockRowUser(lines, fields, i, p, Atoi(fields[2]))

\* The body of GetLockData's loop for the i-th row after the separator (from
\* 0).  fields[k] of the source is fields[k + 1] here; an index or a slice
\* bound outside the row is a fault.
LockRow(lines, fields, i) ==
    IF Len(fields) < 1 THEN Panic
    ELSE LockRowPid(lines, fields, i,
                    PidFields(fields[1], "while getting LockData ClusterNodeId",
                              "while getting LockData PID (ClusterNodeId)",
                              "while getting LockData PID"))

\* The lines of the text.
Lines(text) == Split(text, <<"\n">>)

\* The fields of the header line, the line above the separator, when it has
\* lineFields fields between double spaces; <<>> otherwise.
HeaderFields(lines, sepLineIndex, lineFields) ==
    LET tableHeaderMatrix ==
            getFieldMatrixFixLength(Slice(lines, sepLineIndex - 1, sepLineIndex),
                                    <<" ", " ">>, lineFields)
    IN  IF Len(tableHeaderMatrix) # 1 THEN <<>> ELSE tableHeaderMatrix[1]

\* The checks before GetLockData's loop, on the lines, the separator's index
\* and the header's fields: whether the text is a table of locks.
LockTableChecks(text, sepLineIndex, tableHeaderFields) ==
    /\ TrimSpace(text) # StrNoLockedFiles
    /\ sepLineIndex >= 1
    /\ tableHeaderFields # <<>>
    /\ tableHeaderFields[1] = StrPid
    /\ tableHeaderFields[6] = StrOplock

LockTableOk(text) ==
    LockTableChecks(text, findSeperatorLineIndex(Lines(text)),
                    HeaderFields(Lines(text), findSeperatorLineIndex(Lines(text)), 9))

\* The rows GetLockData's loop walks: the fields of every line after the
\* separator, a line without fields included.
LockLoopRows(text) ==
    getFieldMatrix(SliceFrom(Lines(text), findSeperatorLineIndex(Lines(text)) + 1), <<" ">>)

\* The loop of GetLockData over rows, lines the lines of the input.
RECURSIVE LockLoopFrom(_, _, _, _)
LockLoopFrom(lines, rows, i, acc) ==
    IF i >= Len(rows) THEN acc
    ELSE LET r == LockRow(lines, rows[i + 1], i)
         IN  IF r.kind = "panic" THEN Faulted(acc, r)
             ELSE LockLoopFrom(lines, rows, i + 1, Stepped(acc, r))

LockLoop(lines, rows) == LockLoopFrom(lines, rows, 0, ReturnedEmpty)

\* GetLockData(data): the call's outcome, [panic, ret, log].
GetLockData(text) ==
    IF ~LockTableOk(text) THEN ReturnedEmpty
    ELSE LockLoop(Lines(text), LockLoopRows(text))

(***************************************************************************)
(* GetShareData                                                            *)
(***************************************************************************)

\* fmt.Sprintf of the tokens separated by single spaces
JoinSpace(parts) == Drop(JoinLeadingSpace(parts), 2)

\* The first layout that parses timeStr, then the second.
ParseEither(layout1, layout2, timeStr) ==
    TryLayouts(<<layout1, layout2>>, timeStr)

\* A row of the "normal" table after the conversions: p the process id, at
\* the connect time parsed from timeStr.
ShareRowNormal(fields, p, at, timeStr, encryption, signing, addAt) ==
    IF p.err THEN Skipped(p.log)
    ELSE IF ~at.ok
    THEN Skipped(LogConv(addAt, timeStr))
    ELSE Appended([Service |-> fields[1], PID |-> p.PID, ClusterNodeId |-> p.ClusterNodeId,
                   Machine |-> fields[3], ConnectedAt |-> at.t,
                   Encryption |-> encryption, Signing |-> signing])

\* The loop body of the "normal" table with 12 fields a row: the connect time
\* is fields[3..9], a 12 hour time with a time zone.
ShareRow12(fields, i) ==
    ShareRowNormal(fields,
                   PidFields(fields[2],
                             "while getting ShareData ClusterNodeId (normal - c12 - with :)",
                             "while getting ShareData PID (normal - c12 - with :)",
                             "while getting ShareData PID (normal - c12 - without :)"),
                   ParseEither(Layout12hZeroDay, Layout12hDay, JoinSpace(Slice(fields, 3, 10))),
                   JoinSpace(Slice(fields, 3, 10)), fields[11], fields[12],
                   "while getting ShareData ConnectedAt (normal - c12)")

\* The loop body of the "normal" table with 11 fields a row: the connect time
\* is fields[3..8], a 24 hour time with a time zone.
ShareRow11(fields, i) ==
    ShareRowNormal(fields,
                   PidFields(fields[2],
                             "while getting ShareData ClusterNodeId (normal - c11 - with :)",
                             "while getting ShareData PID (normal - c11 - with :)",
                             "while getting ShareData PID (normal - c11 - without :)"),
                   ParseEither(Layout24hZone, Layout24hMo, JoinSpace(Slice(fields, 3, 9))),
                   JoinSpace(Slice(fields, 3, 9)), fields[10], fields[11],
                   "while getting ShareData ConnectedAt (normal - c11)")

\* A row of the "cluster" table after the conversion p of the process id.
\* Neither Service nor ConnectedAt is assigned: they keep the zero values of
\* `var entry ShareData`.
ShareRowClusterPid(fields, p) ==
    IF p.err THEN Skipped(p.log)
    ELSE Appended([Service |-> <<>>, PID |-> p.PID, ClusterNodeId |-> p.ClusterNodeId,
                   Machine |-> Sprintf2(fields[4], fields[5]), ConnectedAt |-> ZeroTime,
                   Encryption |-> fields[7], Signing |-> fields[8]])

\* The loop body of the "cluster" table, 8 fields a row.
ShareRowCluster(fields, i) ==
    ShareRowClusterPid(fields,
                       PidFields(fields[1],
                                 "while getting ShareData ClusterNodeId (cluster - with :)",
                                 "while getting ShareData PID (cluster - with :)",
                                 "while getting ShareData PID (cluster - without :)"))

\* The running mode GetShareData reads from the header fields.
RunningMode(tableHeaderFields) ==
    IF tableHeaderFields[1] = StrPID /\ tableHeaderFields[5] = StrProtocolVersion
    THEN "cluster"
    ELSE IF tableHeaderFields[1] = StrService /\ tableHeaderFields[4] = StrConnectedAt
    THEN "normal"
    ELSE "none"

\* The header fields of GetShareData: the 6 of a normal setup, else the 7 of
\* a cluster setup, else <<>>.
ShareHeaderFields(lines, sepLineIndex) ==
    IF HeaderFields(lines, sepLineIndex, 6) # <<>> THEN HeaderFields(lines, sepLineIndex, 6)
    ELSE HeaderFields(lines, sepLineIndex, 7)

\* The table GetShareData sees in the lines after the separator: "normal12"
\* when the running mode is normal and a line has 12 fields, "normal11"
\* when it is normal and none has, "cluster", or "none".
ShareVariant(runningMode, rows) ==
    IF runningMode = "normal"
    THEN IF getFieldMatrixFixLength(rows, <<" ">>, 12) # <<>> THEN "normal12" ELSE "normal11"
    ELSE runningMode

ShareTableChecks(lines, sepLineIndex) ==
    IF sepLineIndex < 1 THEN "none"
    ELSE IF ShareHeaderFields(lines, sepLineIndex) = <<>> THEN "none"
    ELSE ShareVariant(RunningMode(ShareHeaderFields(lines, sepLineIndex)),
                      SliceFrom(lines, sepLineIndex + 1))

ShareTable(text) == ShareTableChecks(Lines(text), findSeperatorLineIndex(Lines(text)))

\* The fields a row of the variant has.
ShareLineFields(variant) ==
    IF variant = "normal12" THEN 12 ELSE IF variant = "normal11" THEN 11 ELSE 8

\* The rows GetShareData's loop walks: the lines after the separator that
\* have the variant's number of fields.
ShareLoopRows(text, variant) ==
    getFieldMatrixFixLength(SliceFrom(Lines(text), findSeperatorLineIndex(Lines(text)) + 1),
                            <<" ">>, ShareLineFields(variant))

\* The loop body of the variant.
ShareRow(variant, fields, i) ==
    IF variant = "normal12" THEN ShareRow12(fields, i)
    ELSE IF variant = "normal11" THEN ShareRow11(fields, i)
    ELSE ShareRowCluster(fields, i)

\* The loop of GetShareData over the rows of the variant.
RECURSIVE ShareLoopFrom(_, _, _, _)
ShareLoopFrom(variant, rows, i, acc) ==
    IF i >= Len(rows) THEN acc
    ELSE LET r == ShareRow(variant, rows[i + 1], i)
         IN  IF r.kind = "panic" THEN Faulted(acc, r)
             ELSE ShareLoopFrom(variant, rows, i + 1, Stepped(acc, r))

ShareLoop(variant, rows) == ShareLoopFrom(variant, rows, 0, ReturnedEmpty)

\* The call for the variant found.
GetShareDataOf(text, variant) ==
    IF variant = "none" THEN ReturnedEmpty
    ELSE ShareLoop(variant, ShareLoopRows(text, variant))

\* GetShareData(data): the call's outcome, [panic, ret, log].
GetShareData(text) == GetShareDataOf(text, ShareTable(text))

(***************************************************************************)
(* GetProcessData                                                          *)
(***************************************************************************)

\* A row of the process table after the conversions p, uid and gid of the
\* process, user and group id.
ProcessRowIds(sambaVersion, fields, p, uid, gid) ==
    IF p.err THEN Skipped(p.log)
    ELSE IF uid.err THEN Skipped(LogConv("while getting ProcessData UserID", fields[2]))
    ELSE IF gid.err THEN Skipped(LogConv("while getting ProcessData GroupID", fields[3]))
    ELSE Appended([PID |-> p.PID, ClusterNodeId |-> p.ClusterNodeId,
                   UserID |-> uid.val, GroupID |-> gid.val,
                   Machine |-> Sprintf2(fields[4], fields[5]),
                   ProtocolVersion |-> fields[6], Encryption |-> fields[7],
                   Signing |-> fields[8], SambaVersion |-> sambaVersion])

\* A conversion of a user or group id that knows no sentinel.
IdWithoutSentinel(token, sentinel) == Atoi(token)

\* The conversion of a user or group id: the name sentinel ("nobody",
\* "nogroup") stands for -1, anything else is converted as an integer.
IdOrSentinel(token, sentinel) ==
    IF token = sentinel THEN [err |-> FALSE, val |-> -1] ELSE Atoi(token)

\* The loop body of GetProcessData, 8 fields a row.
ProcessRow(sambaVersion, fields, i) ==
    ProcessRowIds(sambaVersion, fields,
                  PidFields(fields[1], "while getting ProcessData ClusterNodeId",
                            "while getting ProcessData PID (with :)",
                            "while getting ProcessData PID (without :)"),
                  IdOrSentinel(fields[2], StrNobody), IdOrSentinel(fields[3], StrNogroup))

\* The checks before GetProcessData's loop: the separator has two lines
\* above it, the first the version banner, the second a header of 7 fields
\* with "Username" second and "Protocol Version" fifth.
ProcessTableChecks(lines, sepLineIndex) ==
    /\ sepLineIndex >= 2
    /\ HasPrefix(lines[sepLineIndex - 1], StrSambaVersion)
    /\ HeaderFields(lines, sepLineIndex, 7) # <<>>
    /\ HeaderFields(lines, sepLineIndex, 7)[2] = StrUsername
    /\ HeaderFields(lines, sepLineIndex, 7)[5] = StrProtocolVersion

ProcessTableOk(text) == ProcessTableChecks(Lines(text), findSeperatorLineIndex(Lines(text)))

\* The version the banner two lines above the separator gives.
SambaVersion(text) ==
    TrimSpace(ReplaceFirst(Lines(text)[findSeperatorLineIndex(Lines(text)) - 1],
                           StrSambaVersion, <<>>))

\* The rows GetProcessData's loop walks: the lines after the separator that
\* have 8 fields.
ProcessLoopRows(text) ==
    getFieldMatrixFixLength(SliceFrom(Lines(text), findSeperatorLineIndex(Lines(text)) + 1),
                            <<" ">>, 8)

\* The loop of GetProcessData over rows.
RECURSIVE ProcessLoopFrom(_, _, _, _)
ProcessLoopFrom(sambaVersion, rows, i, acc) ==
    IF i >= Len(rows) THEN acc
    ELSE LET r == ProcessRow(sambaVersion, rows[i + 1], i)
         IN  IF r.kind = "panic" THEN Faulted(acc, r)
             ELSE ProcessLoopFrom(sambaVersion, rows, i + 1, Stepped(acc, r))

ProcessLoop(sambaVersion, rows) == ProcessLoopFrom(sambaVersion, rows, 0, ReturnedEmpty)

\* GetProcessData(data): the call's outcome, [panic, ret, log].
GetProcessData(text) ==
    IF ~ProcessTableOk(text) THEN ReturnedEmpty
    ELSE ProcessLoop(SambaVersion(text), ProcessLoopRows(text))

(***************************************************************************)
(* Package smbexporter: SambaExporter's Describe and Collect.              *)
(*                                                                         *)
(* A call of Describe or Collect blocks in pipecomunication.GetSambaStatus *)
(* for the round trip to samba_statusd, then walks the statistics.  The    *)
(* steps of a call are: the entry up to GetSambaStatus (Describe,          *)
(* Collect), the request written to the pipe (SendRequest), the response   *)
(* and the checks that follow it (DescribeResponse, CollectResponse), and  *)
(* for each turn of the loop over the statistics the step up to the send   *)
(* on the channel (DescribeLoop, CollectLoop) and the step that ends the   *)
(* send (DescribeSend, CollectSend).                                       *)
(***************************************************************************)

\* The goroutines that may call Describe and Collect on the one exporter.
NumCallers == 2

\* The most statistics of one response.
MaxStats == 2

Callers == 1..NumCallers

EXPORTER_LABEL_PREFIX == "samba"

\* prometheus.BuildFQName for an empty subsystem
BuildFQName(namespace, name) ==
    IF name = "" THEN ""
    ELSE IF namespace = "" THEN name
    ELSE namespace \o "_" \o name

\* prometheus.NewDesc(fqName, help, []string{}, nil), as far as the exporter
\* reads it.
NewDesc(stat) == [fqName |-> BuildFQName(EXPORTER_LABEL_PREFIX, stat.Name), help |-> stat.Help]

\* The zero prometheus.Desc a failed map lookup gives.
ZeroDesc == [fqName |-> "", help |-> ""]

\* prometheus.MustNewConstMetric(&desc, prometheus.GaugeValue, float64(value))
NewConstMetric(desc, value) == [desc |-> desc, value |-> value]

\* The statistics statisticsGenerator.GetSmbStatistics may return: a name, a
\* help text and a value each.
StatNames == {"locked_file_count", "share_count", "pid_count"}

StatValues == {0, 3}

StatPool == {[Name |-> n, Help |-> "help of " \o n, Value |-> v] : n \in StatNames, v \in StatValues}

RECURSIVE StatSeqs(_)
StatSeqs(n) ==
    IF n = 0 THEN {<<>>}
    ELSE StatSeqs(n - 1) \cup {Append(q, st) : q \in StatSeqs(n - 1), st \in StatPool}

\* What a round trip and the aggregation give a call: errGet, GetSambaStatus
\* returned an error; isNil, GetSmbStatistics returned nil; stats, the
\* statistics otherwise.
Responses(statSeqs) ==
    {[errGet |-> TRUE, isNil |-> FALSE, stats |-> q] : q \in statSeqs}
    \cup {[errGet |-> FALSE, isNil |-> TRUE, stats |-> <<>>]}
    \cup {[errGet |-> FALSE, isNil |-> FALSE, stats |-> q] : q \in statSeqs}

AllResponses == Responses(StatSeqs(MaxStats))

\* The responses of the concurrent callers' round trips.
FewResponses ==
    Responses({<<>>,
               <<[Name |-> "share_count", Help |-> "help of share_count", Value |-> 3]>>,
               <<[Name |-> "pid_count", Help |-> "help of pid_count", Value |-> 0],
                 [Name |-> "share_count", Help |-> "help of share_count", Value |-> 3]>>})

\* A call's own state: the operation, the response it got, the index of the
\* next statistic, the value it is sending on its channel (<<>> when it is
\* not in a send), what the channel has taken from it and its calls of
\* Logger.WriteError and Logger.WriteErrorMessage.
NoCallYet ==
    [op |-> "", errGet |-> FALSE, isNil |-> FALSE, stats |-> <<>>, i |-> 0,
     pending |-> <<>>, sent |-> <<>>, errors |-> <<>>]

NoLast == [by |-> 0, c |-> NoCallYet]

\* Descriptions[name] = desc
MapPut(m, name, desc) ==
    [n \in DOMAIN m \cup {name} |-> IF n = name THEN desc ELSE m[n]]

\* samba_statusd answers the requests one at a time, in the pipe's order.
Answered(t) ==
    /\ reqPipe # <<>>
    /\ Head(reqPipe) = t
    /\ reqPipe' = Tail(reqPipe)

\* The call of caller t goes on as c: it returns when done, and stays in its
\* loop otherwise.
Proceed(t, c, done) ==
    IF done
    THEN /\ pc' = [pc EXCEPT ![t] = "idle"]
         /\ call' = [call EXCEPT ![t] = NoCallYet]
         /\ last' = [by |-> t, c |-> c]
    ELSE /\ pc' = [pc EXCEPT ![t] = "loop"]
         /\ call' = [call EXCEPT ![t] = c]
         /\ UNCHANGED last

\* Describe up to its call of GetSambaStatus.
Describe(t) ==
    /\ ~fatal
    /\ pc[t] = "idle"
    /\ pc' = [pc EXCEPT ![t] = "GetSambaStatus"]
    /\ call' = [call EXCEPT ![t] = [NoCallYet EXCEPT !.op = "Describe"]]
    /\ last' = NoLast
    /\ UNCHANGED <<Descriptions, reqPipe, fatal, parserVars>>

\* Collect up to its call of GetSambaStatus.
Collect(t) ==
    /\ ~fatal
    /\ pc[t] = "idle"
    /\ pc' = [pc EXCEPT ![t] = "GetSambaStatus"]
    /\ call' = [call EXCEPT ![t] = [NoCallYet EXCEPT !.op = "Collect"]]
    /\ last' = NoLast
    /\ UNCHANGED <<Descriptions, reqPipe, fatal, parserVars>>

\* The call of pipecomunication.GetSambaStatus in Describe and in Collect:
\* the exporter takes no lock before it, so the call writes its request frame
\* whatever the pipe pair carries, and blocks for the response.
SendRequest(t) ==
    /\ ~fatal
    /\ pc[t] = "GetSambaStatus"
    /\ reqPipe' = Append(reqPipe, t)
    /\ pc' = [pc EXCEPT ![t] = "roundTrip"]
    /\ UNCHANGED <<Descriptions, call, fatal, last, parserVars>>

\* OnResponse without the two early returns: the loop is entered with
\* whatever statistics the response carries.
OnResponseNoReturn(t, r) ==
    Proceed(t, [call[t] EXCEPT !.errGet = r.errGet, !.isNil = r.isNil, !.stats = r.stats],
            r.stats = <<>>)

\* The checks after GetSambaStatus and GetSmbStatistics: an error or nil
\* statistics are logged and the call returns; the loop starts otherwise (and
\* is over at once when there is no statistic).
OnResponse(t, r) ==
    IF r.errGet
    THEN Proceed(t, [call[t] EXCEPT !.errGet = TRUE, !.errors = <<"errGet">>], TRUE)
    ELSE IF r.isNil
    THEN Proceed(t, [call[t] EXCEPT !.isNil = TRUE,
                                    !.errors = <<"Empty response from samba_statusd">>], TRUE)
    ELSE Proceed(t, [call[t] EXCEPT !.stats = r.stats], r.stats = <<>>)

\* Describe from the return of GetSambaStatus to the loop.
DescribeResponse(t, r) ==
    /\ ~fatal
    /\ pc[t] = "roundTrip"
    /\ call[t].op = "Describe"
    /\ Answered(t)
    /\ OnResponse(t, r)
    /\ UNCHANGED <<Descriptions, fatal, parserVars>>

\* Collect from the return of GetSambaStatus to the loop.
CollectResponse(t, r) ==
    /\ ~fatal
    /\ pc[t] = "roundTrip"
    /\ call[t].op = "Collect"
    /\ Answered(t)
    /\ OnResponse(t, r)
    /\ UNCHANGED <<Descriptions, fatal, parserVars>>

\* A loop body that makes the map anew for each statistic.
RegisteredAlone(stat) == [n \in {stat.Name} |-> NewDesc(stat)]

\* The registry after Describe's loop body for stat.
Registered(stat) == MapPut(Descriptions, stat.Name, NewDesc(stat))

\* A turn of Describe's loop up to its send: the statistic's descriptor is
\* made and put into Descriptions under the statistic's name; the call then
\* waits in `ch <- desc` until the channel's reader takes the descriptor.
DescribeLoop(t) ==
    /\ ~fatal
    /\ pc[t] = "loop"
    /\ call[t].op = "Describe"
    /\ Descriptions' = Registered(call[t].stats[call[t].i + 1])
    /\ call' = [call EXCEPT ![t].pending = <<NewDesc(call[t].stats[call[t].i + 1])>>]
    /\ pc' = [pc EXCEPT ![t] = "send"]
    /\ UNCHANGED <<reqPipe, fatal, last, parserVars>>

\* The call c after its send is done: the value is with the reader and the
\* turn is over.
Sent(c) == [c EXCEPT !.i = @ + 1, !.sent = Append(@, c.pending[1]), !.pending = <<>>]

\* The end of a turn of Describe's loop: the send is done, the next turn
\* follows or the call returns.
DescribeSend(t) ==
    /\ ~fatal
    /\ pc[t] = "send"
    /\ call[t].op = "Describe"
    /\ Proceed(t, Sent(call[t]), call[t].i + 1 = Len(call[t].stats))
    /\ UNCHANGED <<Descriptions, reqPipe, fatal, parserVars>>

\* The call c after Collect's loop body for stat, up to its send: a name
\* without a description is logged, and the metric is made of the description
\* found (the zero Desc when none was).
Collected(c, stat) ==
    [c EXCEPT !.errors = IF stat.Name \in DOMAIN Descriptions THEN @
                         ELSE Append(@, "No description found for " \o stat.Name),
              !.pending = <<NewConstMetric(IF stat.Name \in DOMAIN Descriptions
                                           THEN Descriptions[stat.Name] ELSE ZeroDesc,
                                           stat.Value)>>]

\* A turn of Collect's loop up to its send: the call then waits in
\* `ch <- met` until the channel's reader takes the metric.
CollectLoop(t) ==
    /\ ~fatal
    /\ pc[t] = "loop"
    /\ call[t].op = "Collect"
    /\ call' = [call EXCEPT ![t] = Collected(call[t], call[t].stats[call[t].i + 1])]
    /\ pc' = [pc EXCEPT ![t] = "send"]
    /\ UNCHANGED <<Descriptions, reqPipe, fatal, last, parserVars>>

\* The end of a turn of Collect's loop: the send is done, the next turn
\* follows or the call returns.
CollectSend(t) ==
    /\ ~fatal
    /\ pc[t] = "send"
    /\ call[t].op = "Collect"
    /\ Proceed(t, Sent(call[t]), call[t].i + 1 = Len(call[t].stats))
    /\ UNCHANGED <<Descriptions, reqPipe, fatal, parserVars>>

\* Descriptions is a Go map without a lock: when one caller writes it in
\* Describe's loop while another caller is in its loop, the accesses race and
\* the runtime may end the process ("fatal error: concurrent map writes").
MapFault ==
    /\ ~fatal
    /\ \E t, u \in Callers :
          /\ t # u
          /\ pc[t] = "loop" /\ call[t].op = "Describe"
          /\ pc[u] = "loop"
    /\ fatal' = TRUE
    /\ UNCHANGED <<Descriptions, pc, call, reqPipe, last, parserVars>>

\* NewSambaExporter: an empty registry; no call has been made.
InitExporter ==
    /\ Descriptions = [n \in {} |-> ZeroDesc]
    /\ pc = [t \in Callers |-> "idle"]
    /\ call = [t \in Callers |-> NoCallYet]
    /\ reqPipe = <<>>
    /\ fatal = FALSE
    /\ last = NoLast

InitNoParser ==
    /\ data = <<>>
    /\ out = [fn |-> "", panic |-> FALSE, ret |-> <<>>, log |-> <<>>]
    /\ InitExporter

\* The calls made one after the other, by one caller.
NextExporter ==
    \/ Describe(1)
    \/ Collect(1)
    \/ SendRequest(1)
    \/ \E r \in AllResponses : DescribeResponse(1, r)
    \/ \E r \in AllResponses : CollectResponse(1, r)
    \/ DescribeLoop(1)
    \/ DescribeSend(1)
    \/ CollectLoop(1)
    \/ CollectSend(1)

SpecExporter == InitNoParser /\ [][NextExporter]_vars

\* The calls of several callers, in any interleaving of their steps.
NextConcurrent ==
    \/ \E t \in Callers : Describe(t)
    \/ \E t \in Callers : Collect(t)
    \/ \E t \in Callers : SendRequest(t)
    \/ \E t \in Callers, r \in FewResponses : DescribeResponse(t, r)
    \/ \E t \in Callers, r \in FewResponses : CollectResponse(t, r)
    \/ \E t \in Callers : DescribeLoop(t)
    \/ \E t \in Callers : DescribeSend(t)
    \/ \E t \in Callers : CollectLoop(t)
    \/ \E t \in Callers : CollectSend(t)
    \/ MapFault

SpecConcurrent == InitNoParser /\ [][NextConcurrent]_vars

(***************************************************************************)
(* The table parsers as a state machine: a text is chosen and the three    *)
(* parsers are called on it.                                               *)
(***************************************************************************)

\* The most data rows of a text.
MaxRows == 2

\* "Pid  User(ID)  DenyMode  Access  R/W  Oplock  SharePath  Name  Time"
LockHeader ==
    <<"P", "i", "d", " ", " ", "U", "s", "e", "r", "(", "I", "D", ")", " ", " ", "D",
      "e", "n", "y", "M", "o", "d", "e", " ", " ", "A", "c", "c", "e", "s", "s", " ",
      " ", "R", "/", "W", " ", " ", "O", "p", "l", "o", "c", "k", " ", " ", "S", "h",
      "a", "r", "e", "P", "a", "t", "h", " ", " ", "N", "a", "m", "e", " ", " ", "T",
      "i", "m", "e">>

\* "Xid  User(ID)  DenyMode  Access  R/W  Oplock  SharePath  Name  Time"
LockHeaderOther ==
    <<"X", "i", "d", " ", " ", "U", "s", "e", "r", "(", "I", "D", ")", " ", " ", "D",
      "e", "n", "y", "M", "o", "d", "e", " ", " ", "A", "c", "c", "e", "s", "s", " ",
      " ", "R", "/", "W", " ", " ", "O", "p", "l", "o", "c", "k", " ", " ", "S", "h",
      "a", "r", "e", "P", "a", "t", "h", " ", " ", "N", "a", "m", "e", " ", " ", "T",
      "i", "m", "e">>

\* "Service  pid  Machine  Connected at  Encryption  Signing"
ShareHeader ==
    <<"S", "e", "r", "v", "i", "c", "e", " ", " ", "p", "i", "d", " ", " ", "M", "a",
      "c", "h", "i", "n", "e", " ", " ", "C", "o", "n", "n", "e", "c", "t", "e", "d",
      " ", "a", "t", " ", " ", "E", "n", "c", "r", "y", "p", "t", "i", "o", "n", " ",
      " ", "S", "i", "g", "n", "i", "n", "g">>

\* "Xervice  pid  Machine  Connected at  Encryption  Signing"
ShareHeaderOther ==
    <<"X", "e", "r", "v", "i", "c", "e", " ", " ", "p", "i", "d", " ", " ", "M", "a",
      "c", "h", "i", "n", "e", " ", " ", "C", "o", "n", "n", "e", "c", "t", "e", "d",
      " ", "a", "t", " ", " ", "E", "n", "c", "r", "y", "p", "t", "i", "o", "n", " ",
      " ", "S", "i", "g", "n", "i", "n", "g">>

\* "PID  Username  Group  Machine  Protocol Version  Encryption  Signing"
ProcessHeader ==
    <<"P", "I", "D", " ", " ", "U", "s", "e", "r", "n", "a", "m", "e", " ", " ", "G",
      "r", "o", "u", "p", " ", " ", "M", "a", "c", "h", "i", "n", "e", " ", " ", "P",
      "r", "o", "t", "o", "c", "o", "l", " ", "V", "e", "r", "s", "i", "o", "n", " ",
      " ", "E", "n", "c", "r", "y", "p", "t", "i", "o", "n", " ", " ", "S", "i", "g",
      "n", "i", "n", "g">>

\* "Xid  Username  Group  Machine  Protocol Version  Encryption  Signing"
ProcessHeaderOther ==
    <<"X", "i", "d", " ", " ", "U", "s", "e", "r", "n", "a", "m", "e", " ", " ", "G",
      "r", "o", "u", "p", " ", " ", "M", "a", "c", "h", "i", "n", "e", " ", " ", "P",
      "r", "o", "t", "o", "c", "o", "l", " ", "V", "e", "r", "s", "i", "o", "n", " ",
      " ", "E", "n", "c", "r", "y", "p", "t", "i", "o", "n", " ", " ", "S", "i", "g",
      "n", "i", "n", "g">>

\* "Samba version 4.11.6"
VersionLine ==
    <<"S", "a", "m", "b", "a", " ", "v", "e", "r", "s", "i", "o", "n", " ", "4", ".",
      "1", "1", ".", "6">>

\* "Locked files:"
LockedFilesLine ==
    <<"L", "o", "c", "k", "e", "d", " ", "f", "i", "l", "e", "s", ":">>

\* The data rows the lock table texts are made of.
LockRowPool ==
    <<\* "1234 0 DENY_NONE RDONLY NONE - /srv/share file.txt Mon Jan 2 15:04:05 2006"
      <<"1", "2", "3", "4", " ", "0", " ", "D", "E", "N", "Y", "_", "N", "O", "N", "E", " ", "R", "D", "O", "N", "L", "Y", " ", "N", "O", "N", "E", " ", "-", " ", "/", "s", "r", "v", "/", "s", "h", "a", "r", "e", " ", "f", "i", "l", "e", ".", "t", "x", "t", " ", "M", "o", "n", " ", "J", "a", "n", " ", "2", " ", "1", "5", ":", "0", "4", ":", "0", "5", " ", "2", "0", "0", "6">>,
      \* "2:1234 0 DENY_NONE RDONLY NONE - /srv/share my file.txt Mon Jan 2 15:04:05 2006 CET"
      <<"2", ":", "1", "2", "3", "4", " ", "0", " ", "D", "E", "N", "Y", "_", "N", "O", "N", "E", " ", "R", "D", "O", "N", "L", "Y", " ", "N", "O", "N", "E", " ", "-", " ", "/", "s", "r", "v", "/", "s", "h", "a", "r", "e", " ", "m", "y", " ", "f", "i", "l", "e", ".", "t", "x", "t", " ", "M", "o", "n", " ", "J", "a", "n", " ", "2", " ", "1", "5", ":", "0", "4", ":", "0", "5", " ", "2", "0", "0", "6", " ", "C", "E", "T">>,
      \* "-1:77 0 DENY_NONE RDWR NONE - /srv f Mon Jan 2 15:04:05 2006"
      <<"-", "1", ":", "7", "7", " ", "0", " ", "D", "E", "N", "Y", "_", "N", "O", "N", "E", " ", "R", "D", "W", "R", " ", "N", "O", "N", "E", " ", "-", " ", "/", "s", "r", "v", " ", "f", " ", "M", "o", "n", " ", "J", "a", "n", " ", "2", " ", "1", "5", ":", "0", "4", ":", "0", "5", " ", "2", "0", "0", "6">>,
      \* "1x 0 DENY_NONE RDWR NONE - /srv f Mon Jan 2 15:04:05 2006"
      <<"1", "x", " ", "0", " ", "D", "E", "N", "Y", "_", "N", "O", "N", "E", " ", "R", "D", "W", "R", " ", "N", "O", "N", "E", " ", "-", " ", "/", "s", "r", "v", " ", "f", " ", "M", "o", "n", " ", "J", "a", "n", " ", "2", " ", "1", "5", ":", "0", "4", ":", "0", "5", " ", "2", "0", "0", "6">>,
      \* "9 0 DENY_NONE RDWR NONE - /srv Mon Jan 2 15:04:05 2006"
      <<"9", " ", "0", " ", "D", "E", "N", "Y", "_", "N", "O", "N", "E", " ", "R", "D", "W", "R", " ", "N", "O", "N", "E", " ", "-", " ", "/", "s", "r", "v", " ", "M", "o", "n", " ", "J", "a", "n", " ", "2", " ", "1", "5", ":", "0", "4", ":", "0", "5", " ", "2", "0", "0", "6">>,
      \* "9 0 DENY_NONE RDWR NONE - /srv f Mon Jan 2 15:04:05 PM"
      <<"9", " ", "0", " ", "D", "E", "N", "Y", "_", "N", "O", "N", "E", " ", "R", "D", "W", "R", " ", "N", "O", "N", "E", " ", "-", " ", "/", "s", "r", "v", " ", "f", " ", "M", "o", "n", " ", "J", "a", "n", " ", "2", " ", "1", "5", ":", "0", "4", ":", "0", "5", " ", "P", "M">>,
      \* "9 0 DENY_NONE RDWR NONE -"
      <<"9", " ", "0", " ", "D", "E", "N", "Y", "_", "N", "O", "N", "E", " ", "R", "D", "W", "R", " ", "N", "O", "N", "E", " ", "-">>,
      \* "12 0 a"
      <<"1", "2", " ", "0", " ", "a">>,
      \* ""
      <<>>>>

\* The data rows the share table texts are made of.
ShareRowPool ==
    <<\* "IPC$ 1119 10.0.0.5 Mon Jan 02 03:04:05 PM 2006 CET - -"
      <<"I", "P", "C", "$", " ", "1", "1", "1", "9", " ", "1", "0", ".", "0", ".", "0", ".", "5", " ", "M", "o", "n", " ", "J", "a", "n", " ", "0", "2", " ", "0", "3", ":", "0", "4", ":", "0", "5", " ", "P", "M", " ", "2", "0", "0", "6", " ", "C", "E", "T", " ", "-", " ", "-">>,
      \* "IPC$ 1x 10.0.0.5 Mon Jan 02 03:04:05 PM 2006 CET - -"
      <<"I", "P", "C", "$", " ", "1", "x", " ", "1", "0", ".", "0", ".", "0", ".", "5", " ", "M", "o", "n", " ", "J", "a", "n", " ", "0", "2", " ", "0", "3", ":", "0", "4", ":", "0", "5", " ", "P", "M", " ", "2", "0", "0", "6", " ", "C", "E", "T", " ", "-", " ", "-">>,
      \* "data 2:1119 10.0.0.5 Mon Jan 2 15:04:05 2006 CET - -"
      <<"d", "a", "t", "a", " ", "2", ":", "1", "1", "1", "9", " ", "1", "0", ".", "0", ".", "0", ".", "5", " ", "M", "o", "n", " ", "J", "a", "n", " ", "2", " ", "1", "5", ":", "0", "4", ":", "0", "5", " ", "2", "0", "0", "6", " ", "C", "E", "T", " ", "-", " ", "-">>,
      \* "data -1:1119 10.0.0.5 Mon Jan 2 15:04:05 2006 CET - -"
      <<"d", "a", "t", "a", " ", "-", "1", ":", "1", "1", "1", "9", " ", "1", "0", ".", "0", ".", "0", ".", "5", " ", "M", "o", "n", " ", "J", "a", "n", " ", "2", " ", "1", "5", ":", "0", "4", ":", "0", "5", " ", "2", "0", "0", "6", " ", "C", "E", "T", " ", "-", " ", "-">>,
      \* "data 1119 10.0.0.5 Mon Jan 2 15:04:05 2006 - AES"
      <<"d", "a", "t", "a", " ", "1", "1", "1", "9", " ", "1", "0", ".", "0", ".", "0", ".", "5", " ", "M", "o", "n", " ", "J", "a", "n", " ", "2", " ", "1", "5", ":", "0", "4", ":", "0", "5", " ", "2", "0", "0", "6", " ", "-", " ", "A", "E", "S">>,
      \* "data 1x 10.0.0.5 Mon Jan 2 15:04:05 2006 CET - -"
      <<"d", "a", "t", "a", " ", "1", "x", " ", "1", "0", ".", "0", ".", "0", ".", "5", " ", "M", "o", "n", " ", "J", "a", "n", " ", "2", " ", "1", "5", ":", "0", "4", ":", "0", "5", " ", "2", "0", "0", "6", " ", "C", "E", "T", " ", "-", " ", "-">>,
      \* "3:1119 1000 1000 10.0.0.5 (ipv4:10.0.0.5:4711) SMB3_11 - AES"
      <<"3", ":", "1", "1", "1", "9", " ", "1", "0", "0", "0", " ", "1", "0", "0", "0", " ", "1", "0", ".", "0", ".", "0", ".", "5", " ", "(", "i", "p", "v", "4", ":", "1", "0", ".", "0", ".", "0", ".", "5", ":", "4", "7", "1", "1", ")", " ", "S", "M", "B", "3", "_", "1", "1", " ", "-", " ", "A", "E", "S">>,
      \* "1119 10.0.0.5"
      <<"1", "1", "1", "9", " ", "1", "0", ".", "0", ".", "0", ".", "5">>>>

\* The data rows the process table texts are made of.
ProcessRowPool ==
    <<\* "1119 1000 1000 10.0.0.5 (ipv4:10.0.0.5:4711) SMB3_11 - AES"
      <<"1", "1", "1", "9", " ", "1", "0", "0", "0", " ", "1", "0", "0", "0", " ", "1", "0", ".", "0", ".", "0", ".", "5", " ", "(", "i", "p", "v", "4", ":", "1", "0", ".", "0", ".", "0", ".", "5", ":", "4", "7", "1", "1", ")", " ", "S", "M", "B", "3", "_", "1", "1", " ", "-", " ", "A", "E", "S">>,
      \* "3:1119 nobody nogroup 10.0.0.5 (ipv4:10.0.0.5:4711) SMB3_11 - -"
      <<"3", ":", "1", "1", "1", "9", " ", "n", "o", "b", "o", "d", "y", " ", "n", "o", "g", "r", "o", "u", "p", " ", "1", "0", ".", "0", ".", "0", ".", "5", " ", "(", "i", "p", "v", "4", ":", "1", "0", ".", "0", ".", "0", ".", "5", ":", "4", "7", "1", "1", ")", " ", "S", "M", "B", "3", "_", "1", "1", " ", "-", " ", "-">>,
      \* "-1:1119 1000 1000 10.0.0.5 (ipv4:10.0.0.5:4711) SMB3_11 - -"
      <<"-", "1", ":", "1", "1", "1", "9", " ", "1", "0", "0", "0", " ", "1", "0", "0", "0", " ", "1", "0", ".", "0", ".", "0", ".", "5", " ", "(", "i", "p", "v", "4", ":", "1", "0", ".", "0", ".", "0", ".", "5", ":", "4", "7", "1", "1", ")", " ", "S", "M", "B", "3", "_", "1", "1", " ", "-", " ", "-">>,
      \* "1119 root 1000 10.0.0.5 (ipv4:10.0.0.5:4711) SMB3_11 - -"
      <<"1", "1", "1", "9", " ", "r", "o", "o", "t", " ", "1", "0", "0", "0", " ", "1", "0", ".", "0", ".", "0", ".", "5", " ", "(", "i", "p", "v", "4", ":", "1", "0", ".", "0", ".", "0", ".", "5", ":", "4", "7", "1", "1", ")", " ", "S", "M", "B", "3", "_", "1", "1", " ", "-", " ", "-">>,
      \* "1119 1000 users 10.0.0.5 (ipv4:10.0.0.5:4711) SMB3_11 - -"
      <<"1", "1", "1", "9", " ", "1", "0", "0", "0", " ", "u", "s", "e", "r", "s", " ", "1", "0", ".", "0", ".", "0", ".", "5", " ", "(", "i", "p", "v", "4", ":", "1", "0", ".", "0", ".", "0", ".", "5", ":", "4", "7", "1", "1", ")", " ", "S", "M", "B", "3", "_", "1", "1", " ", "-", " ", "-">>,
      \* "1119 1000 10.0.0.5"
      <<"1", "1", "1", "9", " ", "1", "0", "0", "0", " ", "1", "0", ".", "0", ".", "0", ".", "5">>>>

\* The sequences of at most n elements of the sequence pool.
RECURSIVE SeqsUpTo(_, _)
SeqsUpTo(pool, n) ==
    IF n = 0 THEN {<<>>}
    ELSE LET shorter == SeqsUpTo(pool, n - 1)
         IN  shorter \cup {Append(q, pool[k]) : q \in shorter, k \in 1..Len(pool)}

\* The lines joined by line feeds: the text strings.Split cuts into them.
RECURSIVE JoinLines(_)
JoinLines(lines) ==
    IF lines = <<>> THEN <<>>
    ELSE IF Len(lines) = 1 THEN lines[1]
    ELSE lines[1] \o <<"\n">> \o JoinLines(Tail(lines))

\* A table text: the lines before the header, the header, a separator line
\* and the data rows.
TableText(before, header, rows) == JoinLines(before \o <<header, StrDashes>> \o rows)

LockTexts ==
    {TableText(b, h, r) : b \in {<<>>, <<<<>>, LockedFilesLine>>},
                          h \in {LockHeader, LockHeaderOther},
                          r \in SeqsUpTo(LockRowPool, MaxRows)}

ShareTexts ==
    {TableText(<<<<>>>>, h, r) : h \in {ShareHeader, ShareHeaderOther, ProcessHeader},
                                 r \in SeqsUpTo(ShareRowPool, MaxRows)}

ProcessTexts ==
    {TableText(b, h, r) : b \in {<<<<>>, VersionLine>>, <<<<>>, LockedFilesLine>>},
                          h \in {ProcessHeader, ProcessHeaderOther},
                          r \in SeqsUpTo(ProcessRowPool, MaxRows)}

\* Texts without a table: the empty text, smbstatus' "No locked files", a
\* header without a separator line.
OtherTexts == {<<>>, StrNoLockedFiles \o <<"\n">>, LockHeader, JoinLines(<<StrDashes, LockRowPool[1]>>)}

Texts == LockTexts \cup ShareTexts \cup ProcessTexts \cup OtherTexts

NoCall == [fn |-> "", panic |-> FALSE, ret |-> <<>>, log |-> <<>>]

Called(fn, outcome) ==
    [fn |-> fn, panic |-> outcome.panic, ret |-> outcome.ret, log |-> outcome.log]

CallGetLockData ==
    /\ out' = Called("GetLockData", GetLockData(data))
    /\ UNCHANGED <<data, exporterVars>>

CallGetShareData ==
    /\ out' = Called("GetShareData", GetShareData(data))
    /\ UNCHANGED <<data, exporterVars>>

CallGetProcessData ==
    /\ out' = Called("GetProcessData", GetProcessData(data))
    /\ UNCHANGED <<data, exporterVars>>

InitParsers ==
    /\ data \in Texts
    /\ out = NoCall
    /\ InitExporter

NextParsers == CallGetLockData \/ CallGetShareData \/ CallGetProcessData

SpecParsers == InitParsers /\ [][NextParsers]_vars

(***************************************************************************)
(* Properties                                                              *)
(***************************************************************************)

\* C1: for every input text, GetLockData, GetShareData and GetProcessData
\* return normally; none of them ends in a runtime fault (an index or a slice
\* bound out of range).
C1_ParsersNeverFault == out.fn # "" => ~out.panic

\* The metrics of the statistics, in order, whose names Descriptions holds.
RECURSIVE MetricsOfRegistered(_)
MetricsOfRegistered(stats) ==
    IF stats = <<>> THEN <<>>
    ELSE IF Head(stats).Name \in DOMAIN Descriptions
    THEN <<NewConstMetric(Descriptions[Head(stats).Name], Head(stats).Value)>>
         \o MetricsOfRegistered(Tail(stats))
    ELSE MetricsOfRegistered(Tail(stats))

\* C2: a Collect call sends exactly, in order, the metrics of the statistics
\* whose names have an entry in Descriptions; a statistic without an entry is
\* skipped, no metric is sent for it.
C2_UnregisteredStatSkipped ==
    (last.by # 0 /\ last.c.op = "Collect" /\ ~last.c.errGet /\ ~last.c.isNil)
        => last.c.sent = MetricsOfRegistered(last.c.stats)

\* C3: when GetSambaStatus returns an error, or the statistics are nil, the
\* call ends with the step that sees it: it has logged the failure, sent
\* nothing on its channel (no descriptor, no metric) and left Descriptions as
\* it was, and the caller is free for its next call.
C3_FailedFetchSendsNothing ==
    [][\A t \in Callers :
          (/\ pc[t] = "roundTrip"
           /\ pc'[t] # "roundTrip"
           /\ \/ call'[t].errGet \/ call'[t].isNil
              \/ (last'.by = t /\ (last'.c.errGet \/ last'.c.isNil)))
          => /\ pc'[t] = "idle"
             /\ last'.by = t
             /\ last'.c.sent = <<>>
             /\ last'.c.errors # <<>>
             /\ Descriptions' = Descriptions]_vars

\* A Collect whose fetch failed has returned with nothing sent, while
\* Descriptions holds names an earlier Describe registered.
C3_Witness ==
    /\ last.by = 1
    /\ last.c.op = "Collect"
    /\ last.c.errGet
    /\ last.c.sent = <<>>
    /\ last.c.errors # <<>>
    /\ DOMAIN Descriptions # {}
    /\ pc[1] = "idle"

\* The outcome of the parser fn for a text.
Parse(fn, text) ==
    IF fn = "GetLockData" THEN GetLockData(text)
    ELSE IF fn = "GetShareData" THEN GetShareData(text)
    ELSE GetProcessData(text)

\* Whether the parser fn takes the text for a table of its kind (the checks
\* of the separator and of the header).
TableRecognised(fn, text) ==
    IF fn = "GetLockData" THEN LockTableOk(text)
    ELSE IF fn = "GetShareData" THEN ShareTable(text) # "none"
    ELSE ProcessTableOk(text)

\* The rows the loop of the parser fn walks for a text.
LoopRows(fn, text) ==
    IF ~TableRecognised(fn, text) THEN <<>>
    ELSE IF fn = "GetLockData" THEN LockLoopRows(text)
    ELSE IF fn = "GetShareData" THEN ShareLoopRows(text, ShareTable(text))
    ELSE ProcessLoopRows(text)

\* What the loop body of the parser fn does with a row of the text.
RowKind(fn, text, fields) ==
    IF fn = "GetLockData" THEN LockRow(Lines(text), fields, 0).kind
    ELSE IF fn = "GetShareData" THEN ShareRow(ShareTable(text), fields, 0).kind
    ELSE ProcessRow(SambaVersion(text), fields, 0).kind

\* The rows that gave the records of a call that returned, in order.
RecordRows(fn, text) ==
    SelectSeq(LoopRows(fn, text), LAMBDA fields : RowKind(fn, text, fields) = "record")

\* The process-id token of a row: the second field of a share row of a
\* normal setup, the first field of every other row.
PidToken(fn, text, fields) ==
    IF fn = "GetShareData" /\ ShareTable(text) \in {"normal12", "normal11"}
    THEN fields[2] ELSE fields[1]

\* C4: in every record a parser returns, ClusterNodeId is -1 exactly when the
\* row's process-id token has no ':' prefix, and it is at least 0 when the
\* token has one.
C4_ClusterNodeIdSentinel ==
    (out.fn # "" /\ ~out.panic)
        => \A k \in 1..Len(out.ret) :
              LET token == PidToken(out.fn, data, RecordRows(out.fn, data)[k])
              IN  /\ (out.ret[k].ClusterNodeId = -1) <=> ~Contains(token, <<":">>)
                  /\ Contains(token, <<":">>) => out.ret[k].ClusterNodeId >= 0

\* C5: every ShareData GetShareData returns, under the normal and under the
\* cluster header, has its Service and its ConnectedAt set from the row: the
\* service is one of the row's fields and the time is not the zero time.
C5_ShareRecordsFullyPopulated ==
    (out.fn = "GetShareData" /\ ~out.panic)
        => \A k \in 1..Len(out.ret) :
              /\ out.ret[k].Service # <<>>
              /\ \E j \in 1..Len(RecordRows(out.fn, data)[k]) :
                     RecordRows(out.fn, data)[k][j] = out.ret[k].Service
              /\ out.ret[k].ConnectedAt # ZeroTime

\* The first column of the header line, the line above the separator line
\* (<<>> when the line has no field).
HeaderFirstColumn(lines, sepLineIndex) ==
    LET columns == TrimmedFields(Split(lines[sepLineIndex], <<" ", " ">>))
    IN  IF columns = <<>> THEN <<>> ELSE columns[1]

\* The labels the first header column of a table of the parser fn may have.
ExpectedFirstColumn(fn) ==
    IF fn = "GetLockData" THEN {StrPid}
    ELSE IF fn = "GetShareData" THEN {StrService, StrPID}
    ELSE {StrPID}

\* C6: when the first column of the header line is not the label of the
\* parser's table, the parser returns an empty collection, whatever rows
\* follow the separator.
C6_HeaderFirstColumnChecked ==
    (/\ out.fn # ""
     /\ findSeperatorLineIndex(Lines(data)) >= 1
     /\ HeaderFirstColumn(Lines(data), findSeperatorLineIndex(Lines(data)))
            \notin ExpectedFirstColumn(out.fn))
        => (~out.panic /\ out.ret = <<>>)

\* C7: no step of a Describe or of a Collect call takes a name out of
\* Descriptions.
C7_DescriptionsNeverShrink ==
    [][DOMAIN Descriptions \subseteq DOMAIN Descriptions']_vars

\* A Describe whose statistics have one name has returned, and Descriptions
\* holds the names of an earlier Describe beside it.
C7_Witness ==
    /\ last.by = 1
    /\ last.c.op = "Describe"
    /\ ~last.c.errGet /\ ~last.c.isNil
    /\ Len(last.c.stats) = 1
    /\ Cardinality(DOMAIN Descriptions) >= 2

\* The texts made of the first lines of a text, the text itself left out.
Truncations(text) ==
    {JoinLines(SubSeq(Lines(text), 1, k)) : k \in 0..(Len(Lines(text)) - 1)}

\* C8: a text cut after fewer lines never gives more records: when the
\* parser returns for the text and for the cut text, the cut text's records
\* are no more than the text's.
C8_TruncationNeverAddsRecords ==
    (out.fn # "" /\ ~out.panic)
        => \A cut \in Truncations(data) :
              ~Parse(out.fn, cut).panic
                  => Len(Parse(out.fn, cut).ret) <= Len(out.ret)

\* The lines after the separator that are not empty.
DataRows(text) ==
    SelectSeq(SliceFrom(Lines(text), findSeperatorLineIndex(Lines(text)) + 1),
              LAMBDA line : TrimSpace(line) # <<>>)

\* C9: when a parser has taken the text for its table, every non-empty line
\* after the separator that gave no record has caused a call of the logger:
\* the log calls are no fewer than the rows without a record.
C9_SkippedRowsLogged ==
    (out.fn # "" /\ ~out.panic /\ TableRecognised(out.fn, data))
        => Len(out.log) >= Len(DataRows(data)) - Len(out.ret)

\* C10: at most one status request of the exporter is on the pipe pair: no
\* call has written its request while the round trip of another call is in
\* flight, however the calls interleave.
C10_OneRequestOutstanding ==
    /\ Len(reqPipe) <= 1
    /\ Cardinality({t \in Callers : pc[t] = "roundTrip"}) <= 1

\* Whether a process-id token converts: "pid", or "node:pid" with both parts
\* integers.
PidConverts(token) ==
    IF Contains(token, <<":">>)
    THEN ~Atoi(Split(token, <<":">>)[1]).err /\ ~Atoi(Split(token, <<":">>)[2]).err
    ELSE ~Atoi(token).err

\* Whether the ids of a process row convert: the pid token, and the user and
\* the group tokens, each an integer or its sentinel.
ProcessRowConverts(fields) ==
    /\ PidConverts(fields[1])
    /\ fields[2] = StrNobody \/ ~Atoi(fields[2]).err
    /\ fields[3] = StrNogroup \/ ~Atoi(fields[3]).err

\* The user id and the group id a process row stands for.
ExpectedId(token, sentinel) == IF token = sentinel THEN -1 ELSE Atoi(token).val

\* C11: the records of GetProcessData are, in order, those of the 8-field
\* rows whose ids convert: a row with the user "nobody" gives UserID = -1, a
\* row with the group "nogroup" gives GroupID = -1, a row with any other user
\* or group that is not an integer gives no record, and the other fields of a
\* record are the row's, with a sentinel as with a number.
C11_NobodyNogroupSentinels ==
    (out.fn = "GetProcessData" /\ ProcessTableOk(data))
        => LET rows == SelectSeq(ProcessLoopRows(data), ProcessRowConverts)
           IN  /\ ~out.panic
               /\ Len(out.ret) = Len(rows)
               /\ \A k \in 1..Len(rows) :
                     /\ out.ret[k].UserID = ExpectedId(rows[k][2], StrNobody)
                     /\ out.ret[k].GroupID = ExpectedId(rows[k][3], StrNogroup)
                     /\ out.ret[k].Machine = rows[k][4] \o <<" ">> \o rows[k][5]
                     /\ out.ret[k].ProtocolVersion = rows[k][6]
                     /\ out.ret[k].Encryption = rows[k][7]
                     /\ out.ret[k].Signing = rows[k][8]
                     /\ out.ret[k].SambaVersion = SambaVersion(data)

\* GetProcessData has returned the record of a "nobody"/"nogroup" row, with
\* -1 for both ids, and has skipped a row whose user is "root".
C11_Witness ==
    /\ out.fn = "GetProcessData"
    /\ Len(out.ret) = 1
    /\ out.ret[1].UserID = -1
    /\ out.ret[1].GroupID = -1
    /\ out.ret[1].PID = 1119
    /\ Len(out.log) = 1
    /\ out.log[1].arg = <<"r", "o", "o", "t">>

\* The last w fields of a row.
LastFields(fields, w) == SubSeq(fields, Len(fields) - w + 1, Len(fields))

\* The start of a lock row's time stamp, counted from 0: the last 5 fields
\* when they are a time stamp, else the last 6 when they are, else -1.
TimeStampStart(fields) ==
    IF Len(fields) >= 5 /\ tryGetTimeStampFromStrArr(LastFields(fields, 5)).ok
    THEN Len(fields) - 5
    ELSE IF Len(fields) >= 6 /\ tryGetTimeStampFromStrArr(LastFields(fields, 6)).ok
    THEN Len(fields) - 6
    ELSE -1

\* Whether a lock row gives a record: it has fields, its pid and uid
\* convert, a time stamp is found and it starts after field 7.
LockRowAccepted(fields) ==
    /\ Len(fields) >= 2
    /\ PidConverts(fields[1])
    /\ ~Atoi(fields[2]).err
    /\ TimeStampStart(fields) > 7

\* Whether a line has a field.
HasFields(fields) == fields # <<>>

\* The example table of one lock row.
LockExampleText == TableText(<<>>, LockHeader, <<LockRowPool[1]>>)

\* C12: GetLockData returns for every table of locks whose lines after the
\* separator all have fields, whatever their number, and its records are, in
\* order, those of the rows with a time stamp in the last 5 or else the last
\* 6 fields that starts after field 7: Time is that time stamp, Name is the
\* fields from 7 up to it joined by single spaces, the pid token "node:pid"
\* gives ClusterNodeId = node and PID = pid.  Every other row with fields
\* is rejected.  The table of the one row "1234 0 DENY_NONE RDONLY NONE -
\* /srv/share file.txt Mon Jan 2 15:04:05 2006" gives one record with PID
\* 1234, ClusterNodeId -1 and Name "file.txt".
C12_LockTimeStampWindow ==
    (/\ out.fn = "GetLockData"
     /\ LockTableOk(data)
     /\ \A j \in 1..Len(LockLoopRows(data)) : HasFields(LockLoopRows(data)[j]))
        => /\ ~out.panic
           /\ LET rows == SelectSeq(LockLoopRows(data), LockRowAccepted)
              IN  /\ Len(out.ret) = Len(rows)
                  /\ Len(out.log) = Len(SelectSeq(LockLoopRows(data), HasFields)) - Len(rows)
                  /\ \A k \in 1..Len(rows) :
                        LET start == TimeStampStart(rows[k])
                        IN  /\ out.ret[k].Time =
                                  tryGetTimeStampFromStrArr(
                                      LastFields(rows[k], Len(rows[k]) - start)).t
                            /\ out.ret[k].Name = JoinSpace(SubSeq(rows[k], 8, start))
                            /\ Contains(rows[k][1], <<":">>)
                                  => /\ out.ret[k].ClusterNodeId
                                            = Atoi(Split(rows[k][1], <<":">>)[1]).val
                                     /\ out.ret[k].PID
                                            = Atoi(Split(rows[k][1], <<":">>)[2]).val
           /\ data = LockExampleText
                 => /\ Len(out.ret) = 1
                    /\ out.ret[1].PID = 1234
                    /\ out.ret[1].ClusterNodeId = -1
                    /\ out.ret[1].Name = <<"f", "i", "l", "e", ".", "t", "x", "t">>

\* The same for the calls that returned: the rows GetLockData gets through
\* are handled as C12 says.
C12_WhenReturned == out.panic \/ C12_LockTimeStampWindow

\* The lines after the separator line.
DataLines(text) == SliceFrom(Lines(text), findSeperatorLineIndex(Lines(text)) + 1)

\* Whether a data row of the parser fn's table has a field that fails its
\* integer conversion: the pid token (with its node part), the user id of a
\* lock row, the user or group id of a process row.
FailsConversion(fn, variant, fields) ==
    IF fn = "GetLockData"
    THEN /\ Len(fields) >= 1
         /\ ~PidConverts(fields[1]) \/ (Len(fields) >= 2 /\ Atoi(fields[2]).err)
    ELSE IF fn = "GetProcessData"
    THEN Len(fields) = 8 /\ ~ProcessRowConverts(fields)
    ELSE IF variant = "cluster"
    THEN Len(fields) = 8 /\ ~PidConverts(fields[1])
    ELSE Len(fields) \in {11, 12} /\ ~PidConverts(fields[2])

\* The same for a line of the text.
LineFailsConversion(fn, text, line) ==
    FailsConversion(fn, IF fn = "GetShareData" THEN ShareTable(text) ELSE "",
                    TrimmedFields(Split(line, <<" ">>)))

\* The data lines of the text whose conversion fails, and the text without
\* them.
FailingLines(fn, text) ==
    SelectSeq(DataLines(text), LAMBDA line : LineFailsConversion(fn, text, line))

WithoutFailingLines(fn, text) ==
    JoinLines(SubSeq(Lines(text), 1, findSeperatorLineIndex(Lines(text)) + 1)
              \o SelectSeq(DataLines(text), LAMBDA line : ~LineFailsConversion(fn, text, line)))

\* The log calls for a failed integer conversion.
ConversionLogs(log) ==
    SelectSeq(log, LAMBDA l : /\ l.fn = "WriteErrorWithAddition"
                              /\ l.text \notin
                                    {"while getting ShareData ConnectedAt (normal - c12)",
                                     "while getting ShareData ConnectedAt (normal - c11)"})

\* C13: a data row with a field that fails its integer conversion gives one
\* logged error and changes nothing else: when the parser returns, its
\* records are those it returns for the text without the failing rows, and
\* its conversion errors are as many as the failing rows.
C13_FailedConversionIsLocal ==
    (/\ out.fn # ""
     /\ TableRecognised(out.fn, data)
     /\ ~out.panic)
        => /\ out.ret = Parse(out.fn, WithoutFailingLines(out.fn, data)).ret
           /\ Len(ConversionLogs(out.log)) = Len(FailingLines(out.fn, data))

\* The same for GetLockData and GetProcessData alone.
C13_LocksAndProcesses == out.fn = "GetShareData" \/ C13_FailedConversionIsLocal

\* The lines after the separator that have fields and give no lock record.
RejectedLockLines(text) ==
    {DataLines(text)[j] : j \in {j \in 1..Len(DataLines(text)) :
        /\ HasFields(TrimmedFields(Split(DataLines(text)[j], <<" ">>)))
        /\ ~LockRowAccepted(TrimmedFields(Split(DataLines(text)[j], <<" ">>)))}}

\* C14: the line GetLockData quotes in a "Not able to ... in following
\* LockData line" message is the text of a data row it rejected, wherever the
\* separator line stands in the input.
C14_RejectionQuotesRow ==
    out.fn = "GetLockData"
        => \A k \in 1..Len(out.log) :
              out.log[k].fn = "WriteErrorMessage"
                  => out.log[k].arg \in RejectedLockLines(data)

=============================================================================
